---------------------------- MODULE Spec2Model ----------------------------
(***************************************************************************)
(* Truck-Route-backend: the HOS schedule builder                           *)
(* (route_planner/hos_calculator.py, HOSCalculator.calculate_schedule) and  *)
(* the ELD log partitioner (route_planner/log_generator.py).               *)
(*                                                                         *)
(* Units.  Every time and duration is a whole number of clock ticks of half *)
(* an hour (Hour = 2 ticks), which is the grain of every duration the       *)
(* source adds on its own (0.5 h break, 0.5 h fuelling, 1 h pickup/dropoff, *)
(* 10 h rest).  Absolute times are ticks since 00:00 of the day on which    *)
(* the schedule starts.  Distances (miles) and coordinates (degrees) are    *)
(* the floats of the source, computed bit for bit as IEEE 754 binary64.     *)
(***************************************************************************)
EXTENDS Integers, Sequences, FiniteSets, TLC

VARIABLES
    pc,                       \* position in calculate_schedule / generate_log_sheets
    route_data,               \* the caller's route: [locations, segments]
    current_cycle_hours,      \* self.current_cycle_hours
    start_time,
    current_time,
    available_driving_hours,
    available_window_hours,
    hours_since_break,
    remaining_cycle_hours,
    stops,
    modified_segments,
    accumulated_distance,
    last_fuel_distance,
    segment_index,
    remaining_segment,        \* private copy of the segment being driven
    current_location,
    next_location,
    is_pickup,
    is_dropoff,
    events,                   \* history: the order in which stops and segments were emitted
    current_date,             \* generate_log_sheets: the day being written (day number)
    logs,                     \* generate_log_sheets: the log entries written so far
    previous                  \* the schedule an earlier call returned for the same input

vars == << pc, route_data, current_cycle_hours, start_time, current_time,
           available_driving_hours, available_window_hours, hours_since_break,
           remaining_cycle_hours, stops, modified_segments, accumulated_distance,
           last_fuel_distance, segment_index, remaining_segment, current_location,
           next_location, is_pickup, is_dropoff, events, current_date, logs,
           previous >>

-----------------------------------------------------------------------------
(* Units *)

\* one hour, in clock ticks: datetime.timedelta(hours=1)
Hour == 2

\* one calendar day, in clock ticks: datetime.timedelta(days=1)
Day == 24 * Hour

-----------------------------------------------------------------------------
(* Python floats: IEEE 754 binary64, round to nearest, ties to even.        *)
(* A float is [sign, exp, mant]: its value is (-1)^sign * M * 2^exp, where  *)
(* M is the integer the limbs of mant spell in base 2^14, least significant *)
(* limb first.  A float other than zero is kept normalised, so that M has   *)
(* exactly 53 bits and equal floats are equal values.  Infinities, NaN and  *)
(* subnormal numbers do not occur at the magnitudes of miles and degrees.   *)
(* The operations bind their operands and intermediate results as the one   *)
(* element of a set, which computes each of them once.                      *)

\* the element of a set of one element
Only(S) == CHOOSE v \in S : TRUE

\* the base of a limb, 2^14: the product of two limbs and the sum of four
\* such products stay below 2^31
LimbBits == 14

LimbBase == 2^LimbBits

\* limbs of a mantissa
MantLimbs == 4

\* bits of a mantissa (sys.float_info.mant_dig)
MantBits == 53

RECURSIVE BitLenInt(_)
BitLenInt(x) == IF x = 0 THEN 0 ELSE Only({ 1 + BitLenInt(y) : y \in {x \div 2} })

LimbAt(n, i) == IF i >= 1 /\ i <= Len(n) THEN n[i] ELSE 0

RECURSIVE TopLimb(_, _)
TopLimb(n, i) == IF i = 0 THEN 0 ELSE IF n[i] # 0 THEN i ELSE TopLimb(n, i - 1)

\* number of bits of the integer n spells
BitLen(n) ==
    LET h == TopLimb(n, Len(n))
    IN IF h = 0 THEN 0 ELSE LimbBits * (h - 1) + BitLenInt(n[h])

\* floor(n / 2^s), on k limbs
ShiftRight(n, s, k) ==
    LET ls == s \div LimbBits
        bs == s % LimbBits
    IN [i \in 1..k |->
          (LimbAt(n, i + ls) \div 2^bs)
          + (LimbAt(n, i + ls + 1) % 2^bs) * 2^(LimbBits - bs)]

\* n * 2^s, on k limbs
ShiftLeft(n, s, k) ==
    LET ls == s \div LimbBits
        bs == s % LimbBits
    IN [i \in 1..k |->
          (LimbAt(n, i - ls) % 2^(LimbBits - bs)) * 2^bs
          + (LimbAt(n, i - ls - 1) \div 2^(LimbBits - bs))]

\* bit b of n (bit 0 is the least significant)
BitAt(n, b) == (LimbAt(n, b \div LimbBits + 1) \div 2^(b % LimbBits)) % 2

\* some bit of n below bit b is set
LowBitsSet(n, b) ==
    \/ \E i \in 1..(b \div LimbBits) : LimbAt(n, i) # 0
    \/ LimbAt(n, b \div LimbBits + 1) % 2^(b % LimbBits) # 0

\* the limbs of column sums, the carries taken along
RECURSIVE Carry(_, _, _)
Carry(cols, i, c) ==
    IF i > Len(cols) THEN << >>
    ELSE Only({ << s % LimbBase >> \o Carry(cols, j, s \div LimbBase)
                : s \in {cols[i] + c}, j \in {i + 1} })

\* the limbs of column sums
Carried(cols) == Only({ Carry(s, 1, 0) : s \in {cols} })

\* a + b, for limb sequences of one length whose sum fits it
AddLimbs(a, b) ==
    Only({ Carried([i \in 1..Len(x) |-> x[i] + y[i]]) : x \in {a}, y \in {b} })

RECURSIVE Borrow(_, _, _, _)
Borrow(a, b, i, c) ==
    IF i > Len(a) THEN << >>
    ELSE Only({ IF s < 0 THEN << s + LimbBase >> \o Borrow(a, b, j, 1)
                ELSE << s >> \o Borrow(a, b, j, 0)
                : s \in {a[i] - b[i] - c}, j \in {i + 1} })

\* a - b, for limb sequences of one length with a >= b
SubLimbs(a, b) == Only({ Borrow(x, y, 1, 0) : x \in {a}, y \in {b} })

\* a < b, for limb sequences of one length, from limb i down
RECURSIVE LessFrom(_, _, _)
LessFrom(a, b, i) ==
    IF i = 0 THEN FALSE
    ELSE IF a[i] # b[i] THEN a[i] < b[i]
    ELSE LessFrom(a, b, i - 1)

LessLimbs(a, b) == LessFrom(a, b, Len(a))

ZeroMant == [i \in 1..MantLimbs |-> 0]

\* 0.0
FZero == [sign |-> 0, exp |-> 0, mant |-> ZeroMant]

IsZero(x) == x.mant = ZeroMant

\* the float nearest to (n + f) * 2^e, where n is a limb sequence and f, a
\* fraction in [0, 1), is known only as zero (sticky false) or not (sticky true);
\* a tie goes to the even mantissa
RoundToFloat(sign, n, e, sticky) ==
    Only({ Only({
        IF len = 0 THEN FZero
        ELSE IF len <= MantBits
        THEN [sign |-> sg, exp |-> ex - (MantBits - len),
              mant |-> ShiftLeft(m, MantBits - len, MantLimbs)]
        ELSE Only({
            LET up == /\ BitAt(m, s - 1) = 1
                      /\ (st \/ LowBitsSet(m, s - 1) \/ q[1] % 2 = 1)
            IN Only({
                IF BitLen(r) > MantBits
                THEN [sign |-> sg, exp |-> ex + s + 1, mant |-> ShiftRight(r, 1, MantLimbs)]
                ELSE [sign |-> sg, exp |-> ex + s, mant |-> r]
                : r \in {IF up
                         THEN Carried([i \in 1..MantLimbs |-> IF i = 1 THEN q[1] + 1 ELSE q[i]])
                         ELSE q} })
            : s \in {len - MantBits}, q \in {ShiftRight(m, len - MantBits, MantLimbs)} })
        : len \in {BitLen(m)} })
        : sg \in {sign}, m \in {n}, ex \in {e}, st \in {sticky} })

\* float(n) of an integer n
FromInt(n) ==
    LET a == IF n < 0 THEN -n ELSE n
    IN RoundToFloat(IF n < 0 THEN 1 ELSE 0,
                    << a % LimbBase, (a \div LimbBase) % LimbBase,
                       a \div (LimbBase * LimbBase) >>, 0, FALSE)

\* 1.0
FOne == FromInt(1)

\* the limbs of floor(r * LimbBase^k / d), most significant limb first
RECURSIVE Quotient(_, _, _)
Quotient(r, d, k) ==
    IF k = 0 THEN << >>
    ELSE Only({ << (r * LimbBase) \div d >> \o Quotient(s, d, j)
                : s \in {(r * LimbBase) % d}, j \in {k - 1} })

RECURSIVE Remainder(_, _, _)
Remainder(r, d, k) ==
    IF k = 0 THEN r
    ELSE Only({ Remainder(s, d, j) : s \in {(r * LimbBase) % d}, j \in {k - 1} })

Reverse(s) == [i \in 1..Len(s) |-> s[Len(s) + 1 - i]]

\* limbs of the fraction a quotient of two integers is computed to
QuotientLimbs == 5

\* float(a) / float(b) for integers 0 <= a and 0 < b < 2^17: the quotient of two
\* floats that are whole numbers is the float nearest to their exact ratio
FDivInt(a, b) ==
    Only({
        Only({
            RoundToFloat(0, Reverse(frac) \o << whole % LimbBase, whole \div LimbBase >>,
                         -(LimbBits * QuotientLimbs),
                         Remainder(n % d, d, QuotientLimbs) # 0)
            : whole \in {n \div d}, frac \in {Quotient(n % d, d, QuotientLimbs)} })
        : n \in {a}, d \in {b} })

RECURSIVE ColumnSum(_, _, _, _)
ColumnSum(a, b, k, i) ==
    IF i > MantLimbs \/ i > k THEN 0
    ELSE (IF k + 1 - i <= MantLimbs THEN a[i] * b[k + 1 - i] ELSE 0)
         + Only({ ColumnSum(a, b, k, j) : j \in {i + 1} })

\* x * y
FMul(x, y) ==
    Only({
        IF IsZero(a) \/ IsZero(b) THEN FZero
        ELSE RoundToFloat((a.sign + b.sign) % 2,
                          Carried([k \in 1..(2 * MantLimbs) |-> ColumnSum(a.mant, b.mant, k, 1)]),
                          a.exp + b.exp, FALSE)
        : a \in {x}, b \in {y} })

\* |x| < |y|
FLessAbs(x, y) ==
    IF IsZero(y) THEN FALSE
    ELSE IF IsZero(x) THEN TRUE
    ELSE IF x.exp # y.exp THEN x.exp < y.exp
    ELSE LessLimbs(x.mant, y.mant)

\* x < y
FLess(x, y) ==
    \E a \in {x}, b \in {y} :
        IF a.sign # b.sign THEN a.sign = 1
        ELSE IF a.sign = 0 THEN FLessAbs(a, b)
        ELSE FLessAbs(b, a)

FLessEq(x, y) == ~FLess(y, x)

\* widest gap of exponents at which both mantissas are still added exactly
ExactGap == 56

SumLimbs == 8

\* |x| + |y| with the sign given, for |x| >= |y| > 0
AddAbs(sign, x, y) ==
    LET d == x.exp - y.exp IN
    IF d > ExactGap
    THEN RoundToFloat(sign, ShiftLeft(x.mant, 3, SumLimbs), x.exp - 3, TRUE)
    ELSE RoundToFloat(sign,
                      AddLimbs(ShiftLeft(x.mant, d, SumLimbs), ShiftLeft(y.mant, 0, SumLimbs)),
                      y.exp, FALSE)

\* |x| - |y| with the sign given, for |x| >= |y| > 0
SubAbs(sign, x, y) ==
    LET d == x.exp - y.exp IN
    IF d > ExactGap
    THEN RoundToFloat(sign,
                      SubLimbs(ShiftLeft(x.mant, 3, SumLimbs),
                               ShiftLeft(<< 1 >>, 0, SumLimbs)),
                      x.exp - 3, TRUE)
    ELSE RoundToFloat(sign,
                      SubLimbs(ShiftLeft(x.mant, d, SumLimbs), ShiftLeft(y.mant, 0, SumLimbs)),
                      y.exp, FALSE)

FNeg(x) == Only({ IF IsZero(a) THEN a ELSE [a EXCEPT !.sign = 1 - @] : a \in {x} })

\* x + y
FAdd(x, y) ==
    Only({
        IF IsZero(a) THEN b
        ELSE IF IsZero(b) THEN a
        ELSE IF a.sign = b.sign
        THEN (IF FLessAbs(a, b) THEN AddAbs(a.sign, b, a) ELSE AddAbs(a.sign, a, b))
        ELSE IF FLessAbs(a, b) THEN SubAbs(b.sign, b, a)
        ELSE SubAbs(a.sign, a, b)
        : a \in {x}, b \in {y} })

\* x - y
FSub(x, y) == FAdd(x, FNeg(y))

\* x / 2
FHalf(x) == Only({ IF IsZero(a) THEN a ELSE [a EXCEPT !.exp = @ - 1] : a \in {x} })

\* the integer a limb sequence spells (below 2^31)
LimbsToInt(n) == n[1] + n[2] * LimbBase + n[3] * LimbBase * LimbBase

\* round(x) of Python: the nearest integer, a tie going to the even one
FRound(x) ==
    Only({
        IF IsZero(a) THEN 0
        ELSE LET s == -a.exp
                 mag == IF s <= 0 THEN LimbsToInt(ShiftLeft(a.mant, -s, MantLimbs))
                        ELSE IF s > MantBits + 1 THEN 0
                        ELSE LET q == LimbsToInt(ShiftRight(a.mant, s, MantLimbs))
                                 up == /\ BitAt(a.mant, s - 1) = 1
                                       /\ (LowBitsSet(a.mant, s - 1) \/ q % 2 = 1)
                             IN IF up THEN q + 1 ELSE q
             IN IF a.sign = 1 THEN -mag ELSE mag
        : a \in {x} })

\* float of the decimal literal with one digit after the point, n / 10
Tenths(n) == IF n < 0 THEN FNeg(FDivInt(-n, 10)) ELSE FDivInt(n, 10)

-----------------------------------------------------------------------------
(* HOS constants, class HOSCalculator *)

MAX_DRIVING_HOURS == 11 * Hour

MAX_DUTY_WINDOW == 14 * Hour

MAX_DRIVING_WITHOUT_BREAK == 8 * Hour

MIN_BREAK_DURATION == Hour \div 2

MIN_REST_DURATION == 10 * Hour

PICKUP_DROPOFF_DURATION == 1 * Hour

MAX_CYCLE_HOURS == 70 * Hour

FUELING_INTERVAL_MILES == FromInt(1000)

FUELING_DURATION == Hour \div 2

-----------------------------------------------------------------------------
(* Bounds and inputs *)

\* Days from the day of the call to the end of the range of datetime: the call is
\* made on day 0, and day DaysLeft would be the first of January of the year
\* 10000, which no datetime reaches (datetime.max is 9999-12-31 23:59:59.999999).
\* Every schedule that is returned ends, and is logged, well before it.
DaysLeft == 7

\* the first time beyond datetime.max
MaxTime == DaysLeft * Day

\* datetime + timedelta gives a datetime; beyond datetime.max it raises OverflowError
InRange(t) == t < MaxTime

\* date + timedelta gives a date; beyond date.max it raises OverflowError
DateInRange(d) == d < DaysLeft

\* hour of day of datetime.now() when calculate_schedule starts
StartHours == {0, 9, 16, 23}

\* current_cycle_hours as accepted by TripRequestSerializer (0..70 h), in ticks
CycleChoices == {0, 58 * Hour, 60 * Hour, 68 * Hour, 70 * Hour}

\* number of segments of the route calculate_schedule is called with
SegCounts == {1, 2, 3}

\* legs of the routes calculate_schedule is called with (its argument route_data):
\* distance in miles and duration.  They are a caller's values, whole miles among
\* them; the legs that reach the builder through calculate_route are those of
\* ViewRoutes
LegChoices ==
    { [distance |-> FromInt(55),   duration |-> 1 * Hour],
      [distance |-> FromInt(495),  duration |-> 9 * Hour],
      [distance |-> FromInt(1001), duration |-> 13 * Hour],
      [distance |-> FromInt(2000), duration |-> 5 * Hour],
      [distance |-> FromInt(4400), duration |-> 11 * Hour] }

Loc(a, la, lo) == [address |-> a, lat |-> la, lng |-> lo]

\* geocoded way points, in degrees
Waypoints ==
    << Loc("current", Tenths(407), Tenths(-740)),
       Loc("pickup", Tenths(419), Tenths(-876)),
       Loc("via", Tenths(391), Tenths(-946)),
       Loc("dropoff", Tenths(341), Tenths(-1182)) >>

\* the segments of a route of n legs: leg i runs between consecutive way points,
\* the last one ending at the dropoff
SegmentsOf(legs) ==
    LET n == Len(legs)
        from(i) == IF i = 1 THEN Waypoints[1] ELSE IF i = 2 THEN Waypoints[2] ELSE Waypoints[3]
        to(i) == IF i = n /\ n > 1 THEN Waypoints[4]
                 ELSE IF i = 1 THEN Waypoints[2] ELSE Waypoints[3]
    IN [i \in 1..n |->
          [start_location |-> from(i), end_location |-> to(i),
           distance |-> legs[i].distance, duration |-> legs[i].duration]]

\* legs of single-segment routes calculate_schedule is called with, taken from
\* the scenarios of the specification: 500 miles in 9 hours
\* (whose 8-hour part is no whole number of miles), a leg of 12 hours and one of
\* 15; and a leg of 3062.5 miles in 24.5 hours, whose 8-hour part is 1000 miles
\* in exact arithmetic and 999.9999999999999 miles in floating point
ScenarioLegs ==
    { [distance |-> FromInt(500), duration |-> 9 * Hour],
      [distance |-> FromInt(660), duration |-> 12 * Hour],
      [distance |-> FromInt(825), duration |-> 15 * Hour],
      [distance |-> Tenths(30625), duration |-> 24 * Hour + Hour \div 2] }

\* the routes calculate_schedule is called with
Routes ==
    { [locations |-> << Waypoints[1], Waypoints[2], Waypoints[4] >>,
       segments |-> SegmentsOf(legs)] :
        legs \in UNION { [1..n -> LegChoices] : n \in SegCounts }
                  \cup [1..1 -> ScenarioLegs] }

-----------------------------------------------------------------------------
(* Helpers *)

Min2(a, b) == IF a <= b THEN a ELSE b

Max2(a, b) == IF a >= b THEN a ELSE b

RECURSIVE SumSeq(_)
SumSeq(s) == IF s = << >> THEN 0 ELSE Head(s) + SumSeq(Tail(s))

total_segments == Len(route_data.segments)

NoLocation == Loc("", FZero, FZero)

NoSegment == [start_location |-> NoLocation, end_location |-> NoLocation,
              distance |-> FZero, duration |-> 0]

\* no schedule has been returned yet
NoSchedule == [start_time |-> 0, end_time |-> 0, stops |-> << >>, segments |-> << >>]

Stop(loc, arrival, type, dur) ==
    [location |-> loc, arrival_time |-> arrival, departure_time |-> arrival + dur,
     stop_type |-> type, duration |-> dur]

\* history entry: the idx-th stop or scheduled segment, emitted while on route segment seg
Event(kind, idx, seg) == [kind |-> kind, idx |-> idx, seg |-> seg]

StopEvent == Event("stop", Len(stops) + 1, segment_index)

SegmentEvent == Event("segment", Len(modified_segments) + 1, segment_index)

\* line 211: f"Intermediate point {segment_index}"
IntermediateAddress(i) == "Intermediate point " \o ToString(i)

-----------------------------------------------------------------------------
(* HOSCalculator.__init__ and the call of calculate_schedule *)

Init ==
    /\ pc = "init"
    /\ route_data \in Routes
    /\ current_cycle_hours \in CycleChoices
    /\ start_time = 0
    /\ current_time = 0
    /\ available_driving_hours = 0
    /\ available_window_hours = 0
    /\ hours_since_break = 0
    /\ remaining_cycle_hours = 0
    /\ stops = << >>
    /\ modified_segments = << >>
    /\ accumulated_distance = FZero
    /\ last_fuel_distance = FZero
    /\ segment_index = 0
    /\ remaining_segment = NoSegment
    /\ current_location = NoLocation
    /\ next_location = NoLocation
    /\ is_pickup = FALSE
    /\ is_dropoff = FALSE
    /\ events = << >>
    /\ current_date = 0
    /\ logs = << >>
    /\ previous = NoSchedule

\* BeginSchedule with a stop list shared by all calls: the stops of the schedule
\* returned before stay in it
BeginSchedule_shared_stops ==
    /\ pc = "init"
    /\ \E h \in StartHours :
         /\ start_time' = h * Hour
         /\ current_time' = h * Hour
         /\ stops' = Append(previous.stops,
                            Stop(route_data.locations[1], h * Hour, "start", 0))
    /\ available_driving_hours' = MAX_DRIVING_HOURS
    /\ available_window_hours' = MAX_DUTY_WINDOW
    /\ hours_since_break' = 0
    /\ modified_segments' = << >>
    /\ remaining_cycle_hours' = MAX_CYCLE_HOURS - current_cycle_hours
    /\ accumulated_distance' = FZero
    /\ last_fuel_distance' = FZero
    /\ segment_index' = 0
    /\ events' = << Event("stop", 1, 0) >>
    /\ pc' = "segment"
    /\ UNCHANGED << previous, route_data, current_cycle_hours, remaining_segment, current_location,
                    next_location, is_pickup, is_dropoff, current_date, logs >>

\* lines 57-86: the clocks are set and the start stop is appended
BeginSchedule ==
    /\ pc = "init"
    /\ \E h \in StartHours :
         /\ start_time' = h * Hour
         /\ current_time' = h * Hour
         /\ stops' = << Stop(route_data.locations[1], h * Hour, "start", 0) >>
    /\ available_driving_hours' = MAX_DRIVING_HOURS
    /\ available_window_hours' = MAX_DUTY_WINDOW
    /\ hours_since_break' = 0
    /\ modified_segments' = << >>
    /\ remaining_cycle_hours' = MAX_CYCLE_HOURS - current_cycle_hours
    /\ accumulated_distance' = FZero
    /\ last_fuel_distance' = FZero
    /\ segment_index' = 0
    /\ events' = << Event("stop", 1, 0) >>
    /\ pc' = "segment"
    /\ UNCHANGED << previous, route_data, current_cycle_hours, remaining_segment, current_location,
                    next_location, is_pickup, is_dropoff, current_date, logs >>

\* lines 88-108: the head of the outer loop, for a segment still to be driven
NextSegment ==
    /\ pc = "segment"
    /\ segment_index < total_segments
    /\ LET segment == route_data.segments[segment_index + 1] IN
         /\ remaining_segment' = segment
         /\ IF segment_index = 0
            THEN /\ current_location' = route_data.locations[1]
                 /\ next_location' = route_data.locations[2]
                 /\ is_pickup' = TRUE
                 /\ is_dropoff' = FALSE
            ELSE IF segment_index = total_segments - 1
            THEN /\ current_location' = route_data.locations[2]
                 /\ next_location' = route_data.locations[3]
                 /\ is_pickup' = FALSE
                 /\ is_dropoff' = TRUE
            ELSE /\ current_location' = segment.start_location
                 /\ next_location' = segment.end_location
                 /\ is_pickup' = FALSE
                 /\ is_dropoff' = FALSE
    /\ pc' = "break"
    /\ UNCHANGED << previous, route_data, current_cycle_hours, start_time, current_time,
                    available_driving_hours, available_window_hours, hours_since_break,
                    remaining_cycle_hours, stops, modified_segments, accumulated_distance,
                    last_fuel_distance, segment_index, events, current_date, logs >>

\* BreakNeeded with a strict comparison
BreakNeeded_strict == hours_since_break > MAX_DRIVING_WITHOUT_BREAK

\* line 113
BreakNeeded == hours_since_break >= MAX_DRIVING_WITHOUT_BREAK

\* lines 112-125: the mandatory 30-minute break
BreakCheck ==
    /\ pc = "break"
    /\ IF BreakNeeded
       THEN /\ InRange(current_time + MIN_BREAK_DURATION)
            /\ stops' = Append(stops, Stop(current_location, current_time, "break",
                                           MIN_BREAK_DURATION))
            /\ events' = Append(events, StopEvent)
            /\ current_time' = current_time + MIN_BREAK_DURATION
            /\ hours_since_break' = 0
            /\ available_window_hours' = available_window_hours - MIN_BREAK_DURATION
       ELSE UNCHANGED << stops, events, current_time, hours_since_break,
                         available_window_hours >>
    /\ pc' = "fuel"
    /\ UNCHANGED << previous, route_data, current_cycle_hours, start_time, available_driving_hours,
                    remaining_cycle_hours, modified_segments, accumulated_distance,
                    last_fuel_distance, segment_index, remaining_segment, current_location,
                    next_location, is_pickup, is_dropoff, current_date, logs >>

\* FuelNeeded on the whole distance driven, the last fuel stop forgotten
FuelNeeded_total == FLessEq(FUELING_INTERVAL_MILES, accumulated_distance)

\* lines 128-129
FuelNeeded ==
    FLessEq(FUELING_INTERVAL_MILES, FSub(accumulated_distance, last_fuel_distance))

\* lines 127-140: the fuelling stop
FuelCheck ==
    /\ pc = "fuel"
    /\ IF FuelNeeded
       THEN /\ InRange(current_time + FUELING_DURATION)
            /\ stops' = Append(stops, Stop(current_location, current_time, "fuel",
                                           FUELING_DURATION))
            /\ events' = Append(events, StopEvent)
            /\ current_time' = current_time + FUELING_DURATION
            /\ available_window_hours' = available_window_hours - FUELING_DURATION
            /\ last_fuel_distance' = accumulated_distance
       ELSE UNCHANGED << stops, events, current_time, available_window_hours,
                         last_fuel_distance >>
    /\ pc' = "pickup"
    /\ UNCHANGED << previous, route_data, current_cycle_hours, start_time, available_driving_hours,
                    hours_since_break, remaining_cycle_hours, modified_segments,
                    accumulated_distance, segment_index, remaining_segment,
                    current_location, next_location, is_pickup, is_dropoff,
                    current_date, logs >>

\* PickupCheck with is_pickup left set after the pickup
PickupCheck_keeps_flag ==
    /\ pc = "pickup"
    /\ IF is_pickup
       THEN /\ InRange(current_time + PICKUP_DROPOFF_DURATION)
            /\ stops' = Append(stops, Stop(next_location, current_time, "pickup",
                                           PICKUP_DROPOFF_DURATION))
            /\ events' = Append(events, StopEvent)
            /\ current_time' = current_time + PICKUP_DROPOFF_DURATION
            /\ available_window_hours' = available_window_hours - PICKUP_DROPOFF_DURATION
            /\ remaining_cycle_hours' = remaining_cycle_hours - PICKUP_DROPOFF_DURATION
            /\ is_pickup' = is_pickup
       ELSE UNCHANGED << stops, events, current_time, available_window_hours,
                         remaining_cycle_hours, is_pickup >>
    /\ pc' = "dropoff"
    /\ UNCHANGED << previous, route_data, current_cycle_hours, start_time, available_driving_hours,
                    hours_since_break, modified_segments, accumulated_distance,
                    last_fuel_distance, segment_index, remaining_segment,
                    current_location, next_location, is_dropoff, current_date, logs >>

\* lines 142-155: the pickup activity
PickupCheck ==
    /\ pc = "pickup"
    /\ IF is_pickup
       THEN /\ InRange(current_time + PICKUP_DROPOFF_DURATION)
            /\ stops' = Append(stops, Stop(next_location, current_time, "pickup",
                                           PICKUP_DROPOFF_DURATION))
            /\ events' = Append(events, StopEvent)
            /\ current_time' = current_time + PICKUP_DROPOFF_DURATION
            /\ available_window_hours' = available_window_hours - PICKUP_DROPOFF_DURATION
            /\ remaining_cycle_hours' = remaining_cycle_hours - PICKUP_DROPOFF_DURATION
            /\ is_pickup' = FALSE
       ELSE UNCHANGED << stops, events, current_time, available_window_hours,
                         remaining_cycle_hours, is_pickup >>
    /\ pc' = "dropoff"
    /\ UNCHANGED << previous, route_data, current_cycle_hours, start_time, available_driving_hours,
                    hours_since_break, modified_segments, accumulated_distance,
                    last_fuel_distance, segment_index, remaining_segment,
                    current_location, next_location, is_dropoff, current_date, logs >>

\* DropoffCheck with the dropoff held back until part of the last segment is driven
DropoffCheck_after_driving ==
    /\ pc = "dropoff"
    /\ IF is_dropoff /\ remaining_segment.duration
                         < route_data.segments[segment_index + 1].duration
       THEN /\ InRange(current_time + PICKUP_DROPOFF_DURATION)
            /\ stops' = Append(stops, Stop(next_location, current_time, "dropoff",
                                           PICKUP_DROPOFF_DURATION))
            /\ events' = Append(events, StopEvent)
            /\ current_time' = current_time + PICKUP_DROPOFF_DURATION
            /\ available_window_hours' = available_window_hours - PICKUP_DROPOFF_DURATION
            /\ remaining_cycle_hours' = remaining_cycle_hours - PICKUP_DROPOFF_DURATION
            /\ is_dropoff' = FALSE
       ELSE UNCHANGED << stops, events, current_time, available_window_hours,
                         remaining_cycle_hours, is_dropoff >>
    /\ pc' = "drive"
    /\ UNCHANGED << previous, route_data, current_cycle_hours, start_time, available_driving_hours,
                    hours_since_break, modified_segments, accumulated_distance,
                    last_fuel_distance, segment_index, remaining_segment,
                    current_location, next_location, is_pickup, current_date, logs >>

\* lines 157-169: the dropoff activity
DropoffCheck ==
    /\ pc = "dropoff"
    /\ IF is_dropoff
       THEN /\ InRange(current_time + PICKUP_DROPOFF_DURATION)
            /\ stops' = Append(stops, Stop(next_location, current_time, "dropoff",
                                           PICKUP_DROPOFF_DURATION))
            /\ events' = Append(events, StopEvent)
            /\ current_time' = current_time + PICKUP_DROPOFF_DURATION
            /\ available_window_hours' = available_window_hours - PICKUP_DROPOFF_DURATION
            /\ remaining_cycle_hours' = remaining_cycle_hours - PICKUP_DROPOFF_DURATION
            /\ is_dropoff' = FALSE
       ELSE UNCHANGED << stops, events, current_time, available_window_hours,
                         remaining_cycle_hours, is_dropoff >>
    /\ pc' = "drive"
    /\ UNCHANGED << previous, route_data, current_cycle_hours, start_time, available_driving_hours,
                    hours_since_break, modified_segments, accumulated_distance,
                    last_fuel_distance, segment_index, remaining_segment,
                    current_location, next_location, is_pickup, current_date, logs >>

\* max_driving_time with the duty window left out of the minimum
max_driving_time_no_window ==
    Min2(available_driving_hours,
         Min2(remaining_segment.duration,
              Min2(MAX_DRIVING_WITHOUT_BREAK - hours_since_break,
                   remaining_cycle_hours)))

\* max_driving_time with the 8-hour break limit left out of the minimum
max_driving_time_no_break_limit ==
    Min2(available_driving_hours,
         Min2(available_window_hours,
              Min2(remaining_segment.duration, remaining_cycle_hours)))

\* max_driving_time with the 11-hour driving limit left out of the minimum
max_driving_time_no_driving_limit ==
    Min2(available_window_hours,
         Min2(remaining_segment.duration,
              Min2(MAX_DRIVING_WITHOUT_BREAK - hours_since_break,
                   remaining_cycle_hours)))

\* max_driving_time with the 70-hour cycle left out of the minimum
max_driving_time_no_cycle_limit ==
    Min2(available_driving_hours,
         Min2(available_window_hours,
              Min2(remaining_segment.duration,
                   MAX_DRIVING_WITHOUT_BREAK - hours_since_break)))

\* lines 172-178
max_driving_time ==
    Min2(available_driving_hours,
         Min2(available_window_hours,
              Min2(remaining_segment.duration,
                   Min2(MAX_DRIVING_WITHOUT_BREAK - hours_since_break,
                        remaining_cycle_hours))))

\* Rest with the cycle restarted by the rest, as a 34-hour restart would
Rest_restarts_cycle ==
    /\ pc = "drive"
    /\ max_driving_time <= 0
    /\ InRange(current_time + MIN_REST_DURATION)
    /\ stops' = Append(stops, Stop(current_location, current_time, "rest",
                                   MIN_REST_DURATION))
    /\ events' = Append(events, StopEvent)
    /\ current_time' = current_time + MIN_REST_DURATION
    /\ available_driving_hours' = MAX_DRIVING_HOURS
    /\ available_window_hours' = MAX_DUTY_WINDOW
    /\ hours_since_break' = 0
    /\ pc' = "break"
    /\ remaining_cycle_hours' = MAX_CYCLE_HOURS - current_cycle_hours
    /\ UNCHANGED << previous, route_data, current_cycle_hours, start_time,
                    modified_segments, accumulated_distance, last_fuel_distance,
                    segment_index, remaining_segment, current_location, next_location,
                    is_pickup, is_dropoff, current_date, logs >>

\* lines 180-196: no driving is possible, a 10-hour rest is taken and the pass restarts
Rest ==
    /\ pc = "drive"
    /\ max_driving_time <= 0
    /\ InRange(current_time + MIN_REST_DURATION)
    /\ stops' = Append(stops, Stop(current_location, current_time, "rest",
                                   MIN_REST_DURATION))
    /\ events' = Append(events, StopEvent)
    /\ current_time' = current_time + MIN_REST_DURATION
    /\ available_driving_hours' = MAX_DRIVING_HOURS
    /\ available_window_hours' = MAX_DUTY_WINDOW
    /\ hours_since_break' = 0
    /\ pc' = "break"
    /\ UNCHANGED << previous, route_data, current_cycle_hours, start_time, remaining_cycle_hours,
                    modified_segments, accumulated_distance, last_fuel_distance,
                    segment_index, remaining_segment, current_location, next_location,
                    is_pickup, is_dropoff, current_date, logs >>

\* line 199: max_driving_time / remaining duration
segment_progress == FDivInt(max_driving_time, remaining_segment.duration)

\* line 200: remaining distance * segment_progress
distance_covered == FMul(remaining_segment.distance, segment_progress)

\* partial_end_location interpolated in proportion to the distance covered
partial_end_location_proportional ==
    [address |-> IntermediateAddress(segment_index),
     lat |-> FAdd(current_location.lat,
                  FMul(FSub(next_location.lat, current_location.lat), segment_progress)),
     lng |-> FAdd(current_location.lng,
                  FMul(FSub(next_location.lng, current_location.lng), segment_progress))]

\* lines 210-214: the end location of a partial segment
partial_end_location ==
    [address |-> IntermediateAddress(segment_index),
     lat |-> FHalf(FAdd(current_location.lat, next_location.lat)),
     lng |-> FHalf(FAdd(current_location.lng, next_location.lng))]

\* partial_segment ending where the complete segment would end
partial_segment_whole_end ==
    [start_location |-> current_location,
     end_location |-> partial_end_location,
     distance |-> distance_covered,
     duration |-> max_driving_time,
     start_time |-> current_time,
     end_time |-> current_time + remaining_segment.duration]

\* partial_segment recording the duration of all that remained
partial_segment_whole_duration ==
    [start_location |-> current_location,
     end_location |-> partial_end_location,
     distance |-> distance_covered,
     duration |-> remaining_segment.duration,
     start_time |-> current_time,
     end_time |-> current_time + max_driving_time]

\* lines 208-219
partial_segment ==
    [start_location |-> current_location,
     end_location |-> partial_end_location,
     distance |-> distance_covered,
     duration |-> max_driving_time,
     start_time |-> current_time,
     end_time |-> current_time + max_driving_time]

\* lines 238-245
complete_segment ==
    [start_location |-> current_location,
     end_location |-> next_location,
     distance |-> remaining_segment.distance,
     duration |-> remaining_segment.duration,
     start_time |-> current_time,
     end_time |-> current_time + remaining_segment.duration]

\* remaining_after_split that shrinks the duration and forgets the distance
remaining_after_split_keeps_distance ==
    [remaining_segment EXCEPT !.duration = @ - max_driving_time]

\* lines 227-228: what is left of the private copy after a partial drive
remaining_after_split ==
    [remaining_segment EXCEPT !.distance = FSub(@, distance_covered),
                              !.duration = @ - max_driving_time]

\* the caller's route if the split were made on the caller's segment itself
\* and not on a copy of it
route_after_split_aliased ==
    [route_data EXCEPT !.segments[segment_index + 1] = remaining_after_split]

\* lines 58, 90, 226-228: the split is made on remaining_segment, a deep copy of
\* the caller's segment, which leaves the caller's route as it is
route_after_split == route_data

\* lines 198-235: part of the segment is driven (segment_progress < 1)
DrivePartial ==
    /\ pc = "drive"
    /\ max_driving_time > 0
    /\ FLess(segment_progress, FOne)
    /\ InRange(current_time + max_driving_time)
    /\ accumulated_distance' = FAdd(accumulated_distance, distance_covered)
    /\ modified_segments' = Append(modified_segments, partial_segment)
    /\ events' = Append(events, SegmentEvent)
    /\ current_location' = partial_segment.end_location
    /\ remaining_segment' = remaining_after_split
    /\ route_data' = route_after_split
    /\ current_time' = current_time + max_driving_time
    /\ available_driving_hours' = available_driving_hours - max_driving_time
    /\ available_window_hours' = available_window_hours - max_driving_time
    /\ hours_since_break' = hours_since_break + max_driving_time
    /\ remaining_cycle_hours' = remaining_cycle_hours - max_driving_time
    /\ pc' = "break"
    /\ UNCHANGED << previous, current_cycle_hours, start_time, stops,
                    last_fuel_distance, segment_index, next_location, is_pickup,
                    is_dropoff, current_date, logs >>

\* lines 198-203, 236-258: the rest of the segment is driven (segment_progress = 1)
DriveComplete ==
    /\ pc = "drive"
    /\ max_driving_time > 0
    /\ ~FLess(segment_progress, FOne)
    /\ InRange(current_time + remaining_segment.duration)
    /\ accumulated_distance' = FAdd(accumulated_distance, distance_covered)
    /\ modified_segments' = Append(modified_segments, complete_segment)
    /\ events' = Append(events, SegmentEvent)
    /\ current_time' = current_time + remaining_segment.duration
    /\ available_driving_hours' = available_driving_hours - remaining_segment.duration
    /\ available_window_hours' = available_window_hours - remaining_segment.duration
    /\ hours_since_break' = hours_since_break + remaining_segment.duration
    /\ remaining_cycle_hours' = remaining_cycle_hours - remaining_segment.duration
    /\ segment_index' = segment_index + 1
    /\ pc' = "segment"
    /\ UNCHANGED << previous, route_data, current_cycle_hours, start_time, stops,
                    last_fuel_distance, remaining_segment, current_location,
                    next_location, is_pickup, is_dropoff, current_date, logs >>

\* lines 260-276: every segment is driven, the end stop is appended and the
\* schedule is returned
FinishSchedule ==
    /\ pc = "segment"
    /\ segment_index >= total_segments
    /\ stops' = Append(stops, Stop(route_data.locations[Len(route_data.locations)],
                                   current_time, "end", 0))
    /\ events' = Append(events, StopEvent)
    /\ pc' = "returned"
    /\ UNCHANGED << previous, route_data, current_cycle_hours, start_time, current_time,
                    available_driving_hours, available_window_hours, hours_since_break,
                    remaining_cycle_hours, modified_segments, accumulated_distance,
                    last_fuel_distance, segment_index, remaining_segment, current_location,
                    next_location, is_pickup, is_dropoff, current_date, logs >>

-----------------------------------------------------------------------------
(* log_generator.py: generate_log_sheets on the returned schedule *)

\* datetime.date() of a time, as a day number
DateOf(t) == t \div Day

\* datetime.time() of a time, in ticks since 00:00
TimeOf(t) == t % Day

\* line 49: datetime.combine(current_date, time(0, 0))
DayStart(d) == d * Day

\* schedule_data['end_time']
schedule_end_time == current_time

\* lines 26-30: the last date of the loop
end_date ==
    IF TimeOf(schedule_end_time) > 0
    THEN DateOf(schedule_end_time) + 1
    ELSE DateOf(schedule_end_time)

\* add_activity_to_log that does not clip the end of the activity to the day
add_activity_to_log_unclipped(start, end, day_start) ==
    LET day_end == day_start + Day
        activity_start == Max2(start, day_start)
    IN IF activity_start >= day_end \/ end <= day_start
       THEN << >>
       ELSE << << activity_start - day_start, end - day_start >> >>

\* lines 136-149: add_activity_to_log, as the intervals it appends
add_activity_to_log(start, end, day_start) ==
    LET day_end == day_start + Day
        activity_start == Max2(start, day_start)
        activity_end == Min2(end, day_end)
    IN IF activity_start >= day_end \/ activity_end <= day_start
       THEN << >>
       ELSE << << activity_start - day_start, activity_end - day_start >> >>

\* ActivityOf with fuel stops logged as off duty
ActivityOf_fuel_off_duty(stop_type) ==
    CASE stop_type \in {"rest", "break", "fuel"} -> "off_duty"
      [] stop_type \in {"pickup", "dropoff"} -> "on_duty"
      [] OTHER -> "none"

\* lines 59-64: the bucket a stop type is logged in
ActivityOf(stop_type) ==
    CASE stop_type = "rest" -> "off_duty"
      [] stop_type = "break" -> "off_duty"
      [] stop_type \in {"pickup", "dropoff", "fuel"} -> "on_duty"
      [] OTHER -> "none"

\* line 55, line 69: an item lying outside of the day
OutsideDay(from, to, day_start) == from >= day_start + Day \/ to < day_start

\* lines 53-64: the intervals of one bucket, stop by stop
RECURSIVE StopIntervals(_, _, _)
StopIntervals(ss, activity, day_start) ==
    IF ss = << >> THEN << >>
    ELSE LET stop == Head(ss) IN
         ( IF ~OutsideDay(stop.arrival_time, stop.departure_time, day_start)
              /\ ActivityOf(stop.stop_type) = activity
           THEN add_activity_to_log(stop.arrival_time, stop.departure_time, day_start)
           ELSE << >> )
         \o StopIntervals(Tail(ss), activity, day_start)

\* lines 67-73: the driving intervals, segment by segment
RECURSIVE DrivingIntervals(_, _)
DrivingIntervals(segs, day_start) ==
    IF segs = << >> THEN << >>
    ELSE LET segment == Head(segs) IN
         ( IF ~OutsideDay(segment.start_time, segment.end_time, day_start)
           THEN add_activity_to_log(segment.start_time, segment.end_time, day_start)
           ELSE << >> )
         \o DrivingIntervals(Tail(segs), day_start)

\* SegmentDayMiles giving the day all the miles of a segment that touches it
SegmentDayMiles_whole(segment, day_start) == segment.distance

\* lines 76-82: the miles of one segment driven on the day
SegmentDayMiles(segment, day_start) ==
    LET segment_start == Max2(segment.start_time, day_start)
        segment_end == Min2(segment.end_time, day_start + Day)
    IN IF segment.end_time > segment.start_time
       THEN FMul(segment.distance,
                 FDivInt(segment_end - segment_start,
                         segment.end_time - segment.start_time))
       ELSE FZero

\* lines 40, 67-82: the miles of the day, before rounding: total_miles after the
\* segments segs, having been total before them
RECURSIVE DayMiles(_, _, _)
DayMiles(segs, day_start, total) ==
    IF segs = << >> THEN total
    ELSE LET segment == Head(segs) IN
         DayMiles(Tail(segs), day_start,
                  IF ~OutsideDay(segment.start_time, segment.end_time, day_start)
                  THEN FAdd(total, SegmentDayMiles(segment, day_start))
                  ELSE total)

\* lines 85-93: the remarks of the day, as (stop type, arrival time of day)
RECURSIVE Remarks(_, _)
Remarks(ss, d) ==
    IF ss = << >> THEN << >>
    ELSE LET stop == Head(ss) IN
         ( IF DateOf(stop.arrival_time) = d
              /\ stop.stop_type \in {"pickup", "dropoff", "fuel"}
           THEN << << stop.stop_type, TimeOf(stop.arrival_time) >> >>
           ELSE << >> )
         \o Remarks(Tail(ss), d)

\* lines 99-104: the shipping documents of the day
RECURSIVE ShippingDocs(_, _)
ShippingDocs(ss, d) ==
    IF ss = << >> THEN << >>
    ELSE LET stop == Head(ss)
             on_day == DateOf(stop.arrival_time) <= d /\ d <= DateOf(stop.departure_time)
         IN ( IF stop.stop_type = "pickup" /\ on_day THEN << << "PU", d >> >>
              ELSE IF stop.stop_type = "dropoff" /\ on_day THEN << << "DO", d >> >>
              ELSE << >> )
            \o ShippingDocs(Tail(ss), d)

\* lines 34-110: the log entry of one day
LogEntry(d) ==
    [date |-> d,
     off_duty |-> StopIntervals(stops, "off_duty", DayStart(d)),
     sleeper_berth |-> << >>,
     driving |-> DrivingIntervals(modified_segments, DayStart(d)),
     on_duty |-> StopIntervals(stops, "on_duty", DayStart(d)),
     total_miles |-> FRound(DayMiles(modified_segments, DayStart(d), FZero)),
     shipping_docs |-> ShippingDocs(stops, d),
     remarks |-> Remarks(stops, d)]

\* lines 22-30: generate_log_sheets is called with the schedule
BeginLogs ==
    /\ pc = "returned"
    /\ DateInRange(end_date)
    /\ current_date' = DateOf(start_time)
    /\ logs' = << >>
    /\ pc' = "logs"
    /\ UNCHANGED << previous, route_data, current_cycle_hours, start_time, current_time,
                    available_driving_hours, available_window_hours, hours_since_break,
                    remaining_cycle_hours, stops, modified_segments, accumulated_distance,
                    last_fuel_distance, segment_index, remaining_segment, current_location,
                    next_location, is_pickup, is_dropoff, events >>

\* line 32: the loop condition
MoreDays == current_date <= end_date

\* lines 32-116: one day of the loop
LogDay ==
    /\ pc = "logs"
    /\ MoreDays
    /\ InRange(DayStart(current_date) + Day)
    /\ logs' = Append(logs, LogEntry(current_date))
    /\ current_date' = current_date + 1
    /\ UNCHANGED << pc, previous, route_data, current_cycle_hours, start_time, current_time,
                    available_driving_hours, available_window_hours, hours_since_break,
                    remaining_cycle_hours, stops, modified_segments, accumulated_distance,
                    last_fuel_distance, segment_index, remaining_segment, current_location,
                    next_location, is_pickup, is_dropoff, events >>

\* line 118: the logs are returned
ReturnLogs ==
    /\ pc = "logs"
    /\ ~MoreDays
    /\ pc' = "done"
    /\ UNCHANGED << previous, route_data, current_cycle_hours, start_time, current_time,
                    available_driving_hours, available_window_hours, hours_since_break,
                    remaining_cycle_hours, stops, modified_segments, accumulated_distance,
                    last_fuel_distance, segment_index, remaining_segment, current_location,
                    next_location, is_pickup, is_dropoff, events, current_date, logs >>

-----------------------------------------------------------------------------
(* OverflowError *)

\* the step about to be taken adds a timedelta to a datetime (hos_calculator.py
\* lines 118, 133, 147, 161, 185, 218, 244) or to a date (log_generator.py lines
\* 30, 50) and the sum lies beyond the range of the type
OverflowPending ==
    CASE pc = "break" -> BreakNeeded /\ ~InRange(current_time + MIN_BREAK_DURATION)
      [] pc = "fuel" -> FuelNeeded /\ ~InRange(current_time + FUELING_DURATION)
      [] pc = "pickup" -> is_pickup /\ ~InRange(current_time + PICKUP_DROPOFF_DURATION)
      [] pc = "dropoff" -> is_dropoff /\ ~InRange(current_time + PICKUP_DROPOFF_DURATION)
      [] pc = "drive" ->
            ~InRange(current_time + (IF max_driving_time <= 0 THEN MIN_REST_DURATION
                                     ELSE max_driving_time))
      [] pc = "returned" -> ~DateInRange(end_date)
      [] pc = "logs" -> MoreDays /\ ~InRange(DayStart(current_date) + Day)
      [] OTHER -> FALSE

\* the addition raises OverflowError, which neither calculate_schedule nor
\* generate_log_sheets catches: the call ends with the exception, nothing
\* returned. The statements before the addition have run: line 203 when a
\* scheduled segment is being made (lines 218, 244), lines 22 and 25 when the
\* log sheets are begun (line 30)
RaiseOverflowError ==
    /\ OverflowPending
    /\ pc' = "raised"
    /\ accumulated_distance' =
          IF pc = "drive" /\ max_driving_time > 0
          THEN FAdd(accumulated_distance, distance_covered)
          ELSE accumulated_distance
    /\ current_date' = IF pc = "returned" THEN DateOf(start_time) ELSE current_date
    /\ logs' = IF pc = "returned" THEN << >> ELSE logs
    /\ UNCHANGED << previous, route_data, current_cycle_hours, start_time, current_time,
                    available_driving_hours, available_window_hours, hours_since_break,
                    remaining_cycle_hours, stops, modified_segments,
                    last_fuel_distance, segment_index, remaining_segment, current_location,
                    next_location, is_pickup, is_dropoff, events >>

-----------------------------------------------------------------------------
(* views.py: a later request with the same locations and cycle hours *)

\* hos_calculator.py lines 260-276: the schedule calculate_schedule returns
returned_schedule ==
    [start_time |-> start_time, end_time |-> current_time, stops |-> stops,
     segments |-> modified_segments]

\* views.py lines 37-41, hos_calculator.py lines 279-291: the schedule is
\* calculated once more for the same route and cycle hours, by a new HOSCalculator
\* whose locals are fresh; the schedule returned before is kept for comparison
Reinvoke ==
    /\ pc = "returned"
    /\ previous = NoSchedule
    /\ previous' = returned_schedule
    /\ pc' = "init"
    /\ start_time' = 0
    /\ current_time' = 0
    /\ available_driving_hours' = 0
    /\ available_window_hours' = 0
    /\ hours_since_break' = 0
    /\ remaining_cycle_hours' = 0
    /\ stops' = << >>
    /\ modified_segments' = << >>
    /\ accumulated_distance' = FZero
    /\ last_fuel_distance' = FZero
    /\ segment_index' = 0
    /\ remaining_segment' = NoSegment
    /\ current_location' = NoLocation
    /\ next_location' = NoLocation
    /\ is_pickup' = FALSE
    /\ is_dropoff' = FALSE
    /\ events' = << >>
    /\ UNCHANGED << route_data, current_cycle_hours, current_date, logs >>

-----------------------------------------------------------------------------

Next ==
    \/ BeginSchedule
    \/ NextSegment
    \/ BreakCheck
    \/ FuelCheck
    \/ PickupCheck
    \/ DropoffCheck
    \/ Rest
    \/ DrivePartial
    \/ DriveComplete
    \/ FinishSchedule
    \/ RaiseOverflowError
    \/ Reinvoke
    \/ BeginLogs
    \/ LogDay
    \/ ReturnLogs

Spec == Init /\ [][Next]_vars


\* the sequential loop always takes its next step
FairSpec == Spec /\ WF_vars(Next)

-----------------------------------------------------------------------------
(* views.py: RouteCalculatorView.post *)

\* route_calculator.py line 119: the float of the literal 0.000621371
\* (0x1.45c700fd4d6a9p-11)
METERS_TO_MILES == [sign |-> 0, exp |-> -63, mant |-> << 5801, 16211, 1792, 1303 >>]

\* line 119: route['distance'] * 0.000621371
distance_miles(meters) == FMul(meters, METERS_TO_MILES)

\* the limbs of floor(n / d), most significant limb first, from limb i of the
\* limb sequence n down, r being the remainder of the limbs above; 0 < d < 2^17
RECURSIVE DivLimbs(_, _, _, _)
DivLimbs(n, d, i, r) ==
    IF i = 0 THEN << >>
    ELSE Only({ << c \div d >> \o DivLimbs(n, d, j, c % d)
                : c \in {r * LimbBase + n[i]}, j \in {i - 1} })

\* n % d, likewise
RECURSIVE ModLimbs(_, _, _, _)
ModLimbs(n, d, i, r) ==
    IF i = 0 THEN r
    ELSE Only({ ModLimbs(n, d, j, c % d) : c \in {r * LimbBase + n[i]}, j \in {i - 1} })

\* limbs the mantissa is extended by before it is divided
DividendShift == 2

\* x / float(d) for a float x and an integer 0 < d < 2^17: the float nearest to
\* the exact ratio
FDivBy(x, d) ==
    Only({
        IF IsZero(a) THEN a
        ELSE Only({
            RoundToFloat(a.sign, Reverse(DivLimbs(n, d, Len(n), 0)),
                         a.exp - LimbBits * DividendShift,
                         ModLimbs(n, d, Len(n), 0) # 0)
            : n \in {[i \in 1..DividendShift |-> 0] \o a.mant} })
        : a \in {x} })

SECONDS_PER_HOUR == 3600

\* line 120: route['duration'] / 3600, a float of hours
duration_hours(seconds) == FDivBy(seconds, SECONDS_PER_HOUR)

\* lines 107-116: answers of the routing service, distance in meters and
\* duration in seconds, both to a tenth; the last one is the answer for two
\* addresses at the same place
OsrmRoutes ==
    { [distance |-> Tenths(885139),   duration |-> Tenths(36000)],
      [distance |-> Tenths(7966255),  duration |-> Tenths(324000)],
      [distance |-> Tenths(16109538), duration |-> Tenths(468000)],
      [distance |-> Tenths(32186890), duration |-> Tenths(180000)],
      [distance |-> Tenths(70811158), duration |-> Tenths(396000)],
      [distance |-> FZero,            duration |-> FZero] }

\* lines 86-134: the segment made of one answer of the routing service
calculate_route_segment(origin, destination, route) ==
    [start_location |-> origin, end_location |-> destination,
     distance |-> distance_miles(route.distance),
     duration |-> duration_hours(route.duration)]

\* route_calculator.py lines 48-83: calculate_route returns two legs, from the
\* current location to the pickup and from the pickup to the dropoff
ViewRoutes ==
    { [locations |-> << Waypoints[1], Waypoints[2], Waypoints[4] >>,
       segments |-> << calculate_route_segment(Waypoints[1], Waypoints[2], first_leg),
                       calculate_route_segment(Waypoints[2], Waypoints[4], second_leg) >>] :
        first_leg \in OsrmRoutes, second_leg \in OsrmRoutes }

\* the clock ticks of a duration of h hours; the clock counts half hours, and a
\* duration that is no whole number of them has no value here
Ticks(h) == CHOOSE t \in 0..MaxTime : FDivInt(t, Hour) = h

\* views.py lines 32-42: the route calculate_route returned, as
\* calculate_hos_compliant_schedule reads it, the hours of its legs on the clock
HandedRoute(route) ==
    [route EXCEPT !.segments =
        [i \in 1..Len(route.segments) |->
            [route.segments[i] EXCEPT !.duration = Ticks(@)]]]

\* views.py lines 17-45: post hands the route calculate_route returns and the
\* validated current_cycle_hours to calculate_hos_compliant_schedule
ViewInit ==
    /\ pc = "init"
    /\ route_data \in { HandedRoute(route) : route \in ViewRoutes }
    /\ current_cycle_hours \in CycleChoices
    /\ start_time = 0
    /\ current_time = 0
    /\ available_driving_hours = 0
    /\ available_window_hours = 0
    /\ hours_since_break = 0
    /\ remaining_cycle_hours = 0
    /\ stops = << >>
    /\ modified_segments = << >>
    /\ accumulated_distance = FZero
    /\ last_fuel_distance = FZero
    /\ segment_index = 0
    /\ remaining_segment = NoSegment
    /\ current_location = NoLocation
    /\ next_location = NoLocation
    /\ is_pickup = FALSE
    /\ is_dropoff = FALSE
    /\ events = << >>
    /\ current_date = 0
    /\ logs = << >>
    /\ previous = NoSchedule

ViewSpec == ViewInit /\ [][Next]_vars

-----------------------------------------------------------------------------
(* Reading the schedule *)

InSchedule == pc \in {"segment", "break", "fuel", "pickup", "dropoff", "drive"}

ScheduleReturned == pc \in {"returned", "logs", "done"}

EvStart(e) ==
    IF e.kind = "stop" THEN stops[e.idx].arrival_time
    ELSE modified_segments[e.idx].start_time

EvEnd(e) ==
    IF e.kind = "stop" THEN stops[e.idx].departure_time
    ELSE modified_segments[e.idx].end_time

EvDuration(e) ==
    IF e.kind = "stop" THEN stops[e.idx].duration
    ELSE modified_segments[e.idx].duration

IsStopOf(e, types) == e.kind = "stop" /\ stops[e.idx].stop_type \in types

LastEventIsSegment == events # << >> /\ events[Len(events)].kind = "segment"

\* hours driven in the first k events since the last stop of one of the types
RECURSIVE DrivenSince(_, _)
DrivenSince(k, types) ==
    IF k = 0 \/ IsStopOf(events[k], types) THEN 0
    ELSE (IF events[k].kind = "segment" THEN EvDuration(events[k]) ELSE 0)
         + DrivenSince(k - 1, types)

\* the scheduled segments produced from route segment i, in order
PiecesOf(i) ==
    SelectSeq(events, LAMBDA e : e.kind = "segment" /\ e.seg = i)

\* the sum of a sequence of floats, added from the left to total
RECURSIVE FSum(_, _)
FSum(s, total) == IF s = << >> THEN total ELSE FSum(Tail(s), FAdd(total, Head(s)))

FAbs(x) == [x EXCEPT !.sign = 0]

\* the floating-point tolerance the specification allows, about 1e-6 (miles)
Tolerance == FMul(FDivInt(1, 1000), FDivInt(1, 1000))

\* two floats are equal within the tolerance
Close(x, y) == FLessEq(FAbs(FSub(x, y)), Tolerance)

PiecesDistance(i) ==
    LET ps == PiecesOf(i)
    IN FSum([k \in 1..Len(ps) |-> modified_segments[ps[k].idx].distance], FZero)

PiecesDuration(i) ==
    LET ps == PiecesOf(i)
    IN SumSeq([k \in 1..Len(ps) |-> modified_segments[ps[k].idx].duration])

TotalSegmentDistance ==
    FSum([i \in 1..Len(modified_segments) |-> modified_segments[i].distance], FZero)

TotalSegmentDuration ==
    SumSeq([i \in 1..Len(modified_segments) |-> modified_segments[i].duration])

TotalStopDuration == SumSeq([i \in 1..Len(stops) |-> stops[i].duration])

IntervalLengths(ivs) == SumSeq([i \in 1..Len(ivs) |-> ivs[i][2] - ivs[i][1]])

LoggedDriving == SumSeq([i \in 1..Len(logs) |-> IntervalLengths(logs[i].driving)])

LoggedMiles == SumSeq([i \in 1..Len(logs) |-> logs[i].total_miles])

DaysWithDriving == Cardinality({i \in 1..Len(logs) : logs[i].driving # << >>})

\* a scheduled segment that starts before a midnight and ends after it
CrossesMidnight(seg) == DateOf(seg.start_time) < DateOf(seg.end_time - 1)

-----------------------------------------------------------------------------
(* Claims *)

\* C1: for every route of at least 2 segments of positive duration and every
\* current_cycle_hours in 0..70, calculate_schedule terminates: all segments are
\* processed and the end stop is appended.
C1_Terminates == <>(total_segments < 2 \/ ScheduleReturned)

\* C2, as stated: available_window_hours is never negative, whatever step
\* (break, fuel, pickup, dropoff, driving) decremented it last.
C2_WindowNeverNegative == available_window_hours >= 0

\* C2, amended: right after a driving step available_window_hours is not
\* negative (the driving decrement is clamped by the minimum).
C2_WindowAfterDriving == LastEventIsSegment => available_window_hours >= 0

\* C2 witness: a drive that the window limited has just used the window up.
C2_Witness ==
    /\ pc = "break"
    /\ LastEventIsSegment
    /\ available_window_hours = 0
    /\ available_driving_hours > 0

\* C3: hours_since_break never exceeds 8 hours, no driving starts with 8 or more
\* hours driven since the last break or rest, and the driving between two
\* consecutive break/rest stops is at most 8 hours.
C3_BreakLimit ==
    /\ hours_since_break <= MAX_DRIVING_WITHOUT_BREAK
    /\ DrivenSince(Len(events), {"break", "rest"}) <= MAX_DRIVING_WITHOUT_BREAK
    /\ InSchedule => hours_since_break = DrivenSince(Len(events), {"break", "rest"})
    /\ (pc = "drive" /\ max_driving_time > 0) =>
           hours_since_break < MAX_DRIVING_WITHOUT_BREAK

\* C3 witness: 8 hours have been driven in one go, in two pieces, and a break is due.
C3_Witness ==
    /\ pc = "break"
    /\ hours_since_break = MAX_DRIVING_WITHOUT_BREAK
    /\ Len(events) >= 2
    /\ events[Len(events)].kind = "segment"
    /\ events[Len(events) - 1].kind = "segment"

\* C4: available_driving_hours is never negative, and the driving scheduled
\* between two consecutive rest stops (or since the start) is at most 11 hours.
C4_DrivingLimit ==
    /\ available_driving_hours >= 0
    /\ DrivenSince(Len(events), {"rest"}) <= MAX_DRIVING_HOURS
    /\ InSchedule =>
          available_driving_hours = MAX_DRIVING_HOURS - DrivenSince(Len(events), {"rest"})

\* C4 witness: the 11 hours are used up, with a break in between.
C4_Witness ==
    /\ pc = "break"
    /\ available_driving_hours = 0
    /\ LastEventIsSegment
    /\ \E k \in 1..Len(events) :
          /\ IsStopOf(events[k], {"break"})
          /\ \A j \in k..Len(events) : ~IsStopOf(events[j], {"rest"})

\* C5: once a route segment is finished, the distances of the scheduled segments
\* produced from it add up to its distance, within the floating-point tolerance,
\* and their durations to its duration.
C5_SegmentCovered ==
    (InSchedule \/ ScheduleReturned) =>
        \A i \in 0..(segment_index - 1) :
            /\ Close(PiecesDistance(i), route_data.segments[i + 1].distance)
            /\ PiecesDuration(i) = route_data.segments[i + 1].duration

\* C5 witness: a finished route segment that was driven in three pieces or more.
C5_Witness ==
    /\ pc = "segment"
    /\ segment_index >= 1
    /\ \E i \in 0..(segment_index - 1) : Len(PiecesOf(i)) >= 3

\* C6: in emission order, no stop arrives and no scheduled segment starts before
\* the departure or end of the event emitted before it.
C6_EventsInOrder ==
    \A k \in 1..(Len(events) - 1) : EvStart(events[k + 1]) >= EvEnd(events[k])

\* C6 witness: a returned schedule in which a partial segment is followed by a
\* rest stop and the rest stop by more driving.
C6_Witness ==
    /\ pc = "returned"
    /\ \E k \in 2..(Len(events) - 1) :
          /\ IsStopOf(events[k], {"rest"})
          /\ events[k - 1].kind = "segment"
          /\ events[k + 1].kind = "segment"

\* C7: for a finished schedule, end_time - start_time is the sum of the durations
\* of all scheduled segments and of all stops.
C7_ElapsedAccounted ==
    ScheduleReturned =>
        current_time - start_time = TotalSegmentDuration + TotalStopDuration

\* C7 witness: a returned schedule with a split segment, a break, a rest and a
\* fuel stop.
C7_Witness ==
    /\ pc = "returned"
    /\ Len(modified_segments) > total_segments
    /\ \A t \in {"break", "rest", "fuel"} :
          \E i \in 1..Len(stops) : stops[i].stop_type = t

\* C8: the log entries are exactly the days from the date of start_time through
\* the date of end_time, in order, one each, and none after the date of end_time.
C8_OneEntryPerDay ==
    pc = "done" =>
        /\ Len(logs) = DateOf(schedule_end_time) - DateOf(start_time) + 1
        /\ \A i \in 1..Len(logs) : logs[i].date = DateOf(start_time) + i - 1

\* C9, as stated: the total_miles of all log entries add up to the total distance
\* of the scheduled segments, within the floating-point tolerance.
C9_MilesAddUp ==
    pc = "done" => Close(FromInt(LoggedMiles), TotalSegmentDistance)

\* C9, amended: the total_miles of all log entries differ from the total distance
\* by at most half a mile for each log entry that has driving (and the
\* floating-point tolerance).
C9_MilesWithinRounding ==
    pc = "done" =>
        FLessEq(FAbs(FSub(FromInt(LoggedMiles), TotalSegmentDistance)),
                FAdd(FHalf(FromInt(DaysWithDriving)), Tolerance))

\* C9 witness: the logs of a trip with a segment driven across midnight, the miles
\* of both days being rounded.
C9_Witness ==
    /\ pc = "done"
    /\ \E i \in 1..Len(modified_segments) :
          /\ CrossesMidnight(modified_segments[i])
          /\ LET miles == SegmentDayMiles(modified_segments[i],
                               DayStart(DateOf(modified_segments[i].start_time)))
             IN FromInt(FRound(miles)) # miles
    /\ ~Close(FromInt(LoggedMiles), TotalSegmentDistance)

\* C10: the lengths of the driving intervals of all log entries add up to the sum
\* of the scheduled segments' durations, also when a segment crosses midnight.
C10_DrivingAddsUp ==
    pc = "done" => LoggedDriving = TotalSegmentDuration

\* C10 witness: the logs of a trip with a segment driven across midnight.
C10_Witness ==
    /\ pc = "done"
    /\ \E i \in 1..Len(modified_segments) : CrossesMidnight(modified_segments[i])
    /\ LoggedDriving > 0

-----------------------------------------------------------------------------
(* Scenarios                                                               *)

\* the stop type, or "segment", of an emitted event
EvType(e) == IF e.kind = "stop" THEN stops[e.idx].stop_type ELSE "segment"

\* the emitted events as pairs of type and duration, in emission order
EventShape == [k \in 1..Len(events) |-> << EvType(events[k]), EvDuration(events[k]) >>]

\* a route of the single segment leg, with no cycle hours used
SingleLegTrip(leg) ==
    /\ total_segments = 1
    /\ route_data.segments[1].distance = leg.distance
    /\ route_data.segments[1].duration = leg.duration

Leg500 == [distance |-> FromInt(500), duration |-> 9 * Hour]

\* C11: the schedule of a single 500-mile, 9-hour segment with no cycle hours used
\* is the start stop, a 1-hour pickup, a segment of at most 8 hours, a 30-minute
\* break, the remaining driving, a 1-hour dropoff and the end stop, and it ends
\* 11.5 hours after it starts.
C11_ScenarioWithDropoff ==
    (pc = "returned" /\ SingleLegTrip(Leg500) /\ current_cycle_hours = 0) =>
        /\ Len(events) = 7
        /\ [k \in 1..7 |-> EvType(events[k])] =
               << "start", "pickup", "segment", "break", "segment", "dropoff", "end" >>
        /\ EvDuration(events[2]) = PICKUP_DROPOFF_DURATION
        /\ EvDuration(events[3]) <= MAX_DRIVING_WITHOUT_BREAK
        /\ EvDuration(events[4]) = MIN_BREAK_DURATION
        /\ EvDuration(events[3]) + EvDuration(events[5]) = Leg500.duration
        /\ EvDuration(events[6]) = PICKUP_DROPOFF_DURATION
        /\ schedule_end_time - start_time = 11 * Hour + Hour \div 2

\* C11, amended: that schedule is the start stop, a 1-hour pickup, a segment of
\* 8 hours, a 30-minute break, a segment of the remaining hour and the end stop,
\* with no dropoff stop, and it ends 10.5 hours after it starts.
C11_ScenarioWithoutDropoff ==
    (pc = "returned" /\ SingleLegTrip(Leg500) /\ current_cycle_hours = 0) =>
        /\ EventShape = << << "start", 0 >>,
                           << "pickup", PICKUP_DROPOFF_DURATION >>,
                           << "segment", MAX_DRIVING_WITHOUT_BREAK >>,
                           << "break", MIN_BREAK_DURATION >>,
                           << "segment", Leg500.duration - MAX_DRIVING_WITHOUT_BREAK >>,
                           << "end", 0 >> >>
        /\ schedule_end_time - start_time = 10 * Hour + Hour \div 2

\* C11 witness: the schedule of the 500-mile, 9-hour segment has been returned,
\* its driving in two segments.
C11_Witness ==
    /\ pc = "returned"
    /\ SingleLegTrip(Leg500)
    /\ current_cycle_hours = 0
    /\ Len(modified_segments) = 2
    /\ Close(TotalSegmentDistance, Leg500.distance)

\* a trip with 68 cycle hours used whose first leg needs 5 hours of driving
CycleScenario ==
    /\ current_cycle_hours = 68 * Hour
    /\ route_data.segments[1].duration = 5 * Hour

\* C12: with 68 cycle hours used and a leg of 5 driving hours, the 2 hours left
\* of the cycle cut the first driving pass to exactly 2 hours, the driving and
\* window limits alone allowing the 5 hours; the first scheduled segment lasts
\* 2 hours, the stop after it is a rest stop, and the scheduled segment driven
\* after that rest lasts the remaining 3 hours.
C12_FirstPassTwoHours ==
    CycleScenario =>
        /\ (pc = "drive" /\ modified_segments = << >>) =>
              /\ remaining_cycle_hours = 2 * Hour
              /\ max_driving_time = 2 * Hour
              /\ Min2(available_driving_hours, available_window_hours) >= 5 * Hour
        /\ modified_segments # << >> =>
              /\ modified_segments[1].duration = 2 * Hour
              /\ \A k \in 1..(Len(events) - 1) :
                    (events[k].kind = "segment" /\ events[k].idx = 1) =>
                        IsStopOf(events[k + 1], {"rest"})
        /\ Len(modified_segments) >= 2 =>
              modified_segments[2].duration = 3 * Hour

\* C12, amended: the 1-hour pickup stop leaves 1 cycle hour, so the first pass is
\* cut to exactly 1 hour by the cycle, the driving and window limits alone
\* allowing the 5 hours; the first scheduled segment lasts 1 hour and the stop
\* after it is a rest stop, taken with 4 hours of the leg still to drive.
C12_FirstPassOneHour ==
    CycleScenario =>
        /\ (pc = "drive" /\ modified_segments = << >>) =>
              /\ remaining_cycle_hours = 1 * Hour
              /\ max_driving_time = 1 * Hour
              /\ Min2(available_driving_hours, available_window_hours) >= 5 * Hour
        /\ modified_segments # << >> =>
              /\ modified_segments[1].duration = 1 * Hour
              /\ remaining_segment.duration = 4 * Hour
              /\ \A k \in 1..(Len(events) - 1) :
                    events[k].kind = "segment" => IsStopOf(events[k + 1], {"rest"})

\* C12 witness: the first hour of the 5-hour leg has been driven and a rest stop
\* follows it.
C12_Witness ==
    /\ CycleScenario
    /\ Len(modified_segments) = 1
    /\ IsStopOf(events[Len(events)], {"rest"})
    /\ events[Len(events) - 1].kind = "segment"

\* route segment i (counted from 0) needs more than 11 hours of driving
LongLeg(i) == route_data.segments[i + 1].duration > MAX_DRIVING_HOURS

\* a 10-hour rest stop is emitted before the last scheduled segment of route
\* segment i
RestBeforeComplete(i) ==
    \E k \in 1..Len(events) : \E l \in (k + 1)..Len(events) :
        /\ IsStopOf(events[k], {"rest"})
        /\ EvDuration(events[k]) = MIN_REST_DURATION
        /\ events[l].kind = "segment"
        /\ events[l].seg = i

TwoCalendarDays == DateOf(start_time) < DateOf(schedule_end_time)

\* C13: every schedule of a trip with a leg of 15 hours of driving, and of any leg
\* of more than 11 hours, has a 10-hour rest stop before that driving is complete,
\* and its start_time and end_time are on different calendar days.
C13_RestAndTwoDays ==
    pc = "returned" =>
        \A i \in 0..(total_segments - 1) :
            LongLeg(i) => RestBeforeComplete(i) /\ TwoCalendarDays

\* C13, amended: every schedule of a trip with a leg of more than 11 hours of
\* driving has a 10-hour rest stop before that driving is complete; its start_time
\* and end_time are on different calendar days when the leg needs more than 12.5
\* hours, as the leg of 15 hours does.
C13_RestAndTwoDaysOver12 ==
    pc = "returned" =>
        \A i \in 0..(total_segments - 1) :
            LongLeg(i) =>
                /\ RestBeforeComplete(i)
                /\ 2 * route_data.segments[i + 1].duration > 25 * Hour => TwoCalendarDays

\* C13 witness: the schedule of a single leg of 15 hours has been returned, with a
\* rest stop between two of its scheduled segments.
C13_Witness ==
    /\ pc = "returned"
    /\ total_segments = 1
    /\ route_data.segments[1].duration = 15 * Hour
    /\ RestBeforeComplete(0)
    /\ TwoCalendarDays

\* C14: post never passes a route with a segment of non-positive duration to the
\* schedule builder: the builder's loop is never entered with such a segment.
C14_NoNonPositiveDuration ==
    InSchedule => \A i \in 1..total_segments : route_data.segments[i].duration > 0

\* the schedule of a second call for the same route and cycle hours is returned
SecondReturned == pc = "returned" /\ previous # NoSchedule

\* a schedule with every time moved by d
Shifted(sch, d) ==
    [start_time |-> sch.start_time + d,
     end_time |-> sch.end_time + d,
     stops |-> [i \in 1..Len(sch.stops) |->
                   [sch.stops[i] EXCEPT !.arrival_time = @ + d,
                                        !.departure_time = @ + d]],
     segments |-> [i \in 1..Len(sch.segments) |->
                      [sch.segments[i] EXCEPT !.start_time = @ + d,
                                              !.end_time = @ + d]]]

\* C15: two calls with equal route data and equal current_cycle_hours return
\* equal schedules (stops, scheduled segments, start_time, end_time), whenever
\* each is made.
C15_SameSchedule == SecondReturned => returned_schedule = previous

\* C15, amended: the two schedules are equal up to their start_time, which is the
\* hour of the call: the second is the first with every time moved by the
\* difference of the two start times.
C15_SameScheduleShifted ==
    SecondReturned =>
        returned_schedule = Shifted(previous, start_time - previous.start_time)

\* C15 witness: a second schedule with a split segment and a rest stop has been
\* returned, the two calls made at different hours.
C15_Witness ==
    /\ SecondReturned
    /\ start_time # previous.start_time
    /\ Len(modified_segments) > total_segments
    /\ \E i \in 1..Len(stops) : stops[i].stop_type = "rest"

\* C16: no step of calculate_schedule changes the caller's route data: the
\* segments (distance and duration of each) and the locations of route_data stay
\* what they were before the call, also when a segment is split; only the
\* builder's copy of the segment shrinks.
C16_RouteNotMutated == [][route_data' = route_data]_vars

\* C16 witness: a segment has been split: the builder's copy is shorter than the
\* caller's segment, in distance and in duration.
C16_Witness ==
    /\ InSchedule
    /\ segment_index < total_segments
    /\ LastEventIsSegment
    /\ remaining_segment.duration > 0
    /\ remaining_segment.duration < route_data.segments[segment_index + 1].duration
    /\ FLess(remaining_segment.distance, route_data.segments[segment_index + 1].distance)

\* the hours of the stops of the given types scheduled so far
StopHours(types) ==
    SumSeq([i \in 1..Len(stops) |->
               IF stops[i].stop_type \in types THEN stops[i].duration ELSE 0])

\* C17: at every point of a calculation remaining_cycle_hours is 70 hours less
\* current_cycle_hours less the on-duty hours scheduled so far: driving, pickup,
\* dropoff and fuel stops; break and rest stops do not count.
C17_CycleCountsOnDuty ==
    (InSchedule \/ pc = "returned") =>
        remaining_cycle_hours =
            MAX_CYCLE_HOURS - current_cycle_hours
            - (TotalSegmentDuration + StopHours({"pickup", "dropoff", "fuel"}))

\* the start of the duty window the k-th event lies in: the departure of the last
\* rest stop among the first k events, or start_time
RECURSIVE WindowStart(_)
WindowStart(k) ==
    IF k = 0 THEN start_time
    ELSE IF IsStopOf(events[k], {"rest"}) THEN EvEnd(events[k])
    ELSE WindowStart(k - 1)

\* C18: every scheduled segment ends at most 14 hours after the departure of the
\* most recent rest stop, or after start_time when there has been no rest, all
\* the time of breaks, fuel stops, pickup, dropoff and driving in between counted.
C18_DrivingInsideWindow ==
    \A k \in 1..Len(events) :
        events[k].kind = "segment" =>
            EvEnd(events[k]) - WindowStart(k) <= MAX_DUTY_WINDOW

\* C18 witness: a scheduled segment ends exactly 14 hours after start_time, a
\* fuel stop and a break before it, and after the rest stop that follows another
\* segment has been driven.
C18_Witness ==
    /\ \E k \in 1..Len(events) :
          /\ events[k].kind = "segment"
          /\ WindowStart(k) = start_time
          /\ EvEnd(events[k]) - start_time = MAX_DUTY_WINDOW
          /\ \E j \in 1..(k - 1) : IsStopOf(events[j], {"fuel"})
          /\ \E j \in 1..(k - 1) : IsStopOf(events[j], {"break"})
    /\ \E l \in 1..Len(events) :
          /\ events[l].kind = "segment"
          /\ WindowStart(l) > start_time

\* a rest step: the minimum of the pass is not positive and the pass restarts
RestStep == pc = "drive" /\ max_driving_time <= 0 /\ pc' = "break"

\* C19: a rest step appends one 10-hour rest stop at the current location, moves
\* the clock on by 10 hours, sets available_driving_hours to 11, the window to 14
\* and hours_since_break to 0, and leaves remaining_cycle_hours, the remaining
\* segment, the segment index, the accumulated distance and the scheduled
\* segments as they are.
C19_RestStepFrame ==
    [][RestStep =>
          /\ stops' = Append(stops, Stop(current_location, current_time, "rest",
                                         10 * Hour))
          /\ current_time' = current_time + 10 * Hour
          /\ available_driving_hours' = 11 * Hour
          /\ available_window_hours' = 14 * Hour
          /\ hours_since_break' = 0
          /\ remaining_cycle_hours' = remaining_cycle_hours
          /\ remaining_segment' = remaining_segment
          /\ segment_index' = segment_index
          /\ accumulated_distance' = accumulated_distance
          /\ modified_segments' = modified_segments
          /\ current_location' = current_location]_vars

\* C19 witness: a rest stop has just been taken in the middle of a segment, after
\* on-duty hours were spent and with the driving hours used up.
C19_Witness ==
    /\ pc = "break"
    /\ IsStopOf(events[Len(events)], {"rest"})
    /\ stops[Len(stops)].departure_time = current_time
    /\ available_driving_hours = MAX_DRIVING_HOURS
    /\ available_window_hours = MAX_DUTY_WINDOW
    /\ remaining_cycle_hours < MAX_CYCLE_HOURS - current_cycle_hours
    /\ remaining_segment.duration > 0
    /\ remaining_segment.duration < route_data.segments[segment_index + 1].duration
    /\ DrivenSince(Len(events) - 1, {"rest"}) = MAX_DRIVING_HOURS

\* the step at the top of a pass, where the break is due or not
BreakStep == pc = "break" /\ pc' = "fuel"

\* C20: at the top of a pass a break stop is appended exactly when
\* hours_since_break is 8 hours or more; it lasts half an hour, moves the clock on
\* by half an hour, sets hours_since_break to 0 and takes half an hour from the
\* window, and leaves available_driving_hours and remaining_cycle_hours as they
\* are; available_driving_hours is raised only by a rest step.
C20_BreakStepFrame ==
    [][/\ BreakStep =>
             /\ available_driving_hours' = available_driving_hours
             /\ remaining_cycle_hours' = remaining_cycle_hours
             /\ IF hours_since_break >= 8 * Hour
                THEN /\ stops' = Append(stops, Stop(current_location, current_time,
                                                    "break", Hour \div 2))
                     /\ current_time' = current_time + Hour \div 2
                     /\ hours_since_break' = 0
                     /\ available_window_hours' = available_window_hours - Hour \div 2
                ELSE /\ stops' = stops
                     /\ current_time' = current_time
                     /\ hours_since_break' = hours_since_break
                     /\ available_window_hours' = available_window_hours
       /\ (pc # "init" /\ available_driving_hours' > available_driving_hours) => RestStep
       /\ (Len(stops') > Len(stops) /\ stops'[Len(stops')].stop_type = "break") => BreakStep
      ]_vars

\* C20 witness: a break has just been taken after 8 hours of driving, with
\* driving hours and part of the segment left.
C20_Witness ==
    /\ pc = "fuel"
    /\ IsStopOf(events[Len(events)], {"break"})
    /\ stops[Len(stops)].departure_time = current_time
    /\ hours_since_break = 0
    /\ DrivenSince(Len(events) - 1, {"break", "rest"}) = MAX_DRIVING_WITHOUT_BREAK
    /\ available_driving_hours = MAX_DRIVING_HOURS - MAX_DRIVING_WITHOUT_BREAK
    /\ remaining_segment.duration > 0

\* distance driven in the first k events since the last stop of one of the types
RECURSIVE DistanceSince(_, _)
DistanceSince(k, types) ==
    IF k = 0 \/ IsStopOf(events[k], types) THEN FZero
    ELSE FAdd(DistanceSince(k - 1, types),
              IF events[k].kind = "segment" THEN modified_segments[events[k].idx].distance
              ELSE FZero)

\* 1000 miles or more have been driven in the first k events since the last fuel stop
ThousandMilesSince(k) == FLessEq(FromInt(1000), DistanceSince(k, {"fuel"}))

\* the step of a pass where fuelling is due or not
FuelStep == pc = "fuel" /\ pc' = "pickup"

\* C21: in a pass a fuel stop is appended exactly when at least 1000 miles have
\* been driven since the last fuel stop (or since the start); it lasts half an
\* hour, moves the clock on and takes half an hour from the window, restarts the
\* fuelling distance, and leaves remaining_cycle_hours, available_driving_hours
\* and hours_since_break as they are; two fuel stops are thus at least 1000
\* miles of driving apart.
C21_FuelStepFrame ==
    [][/\ FuelStep =>
             /\ remaining_cycle_hours' = remaining_cycle_hours
             /\ available_driving_hours' = available_driving_hours
             /\ hours_since_break' = hours_since_break
             /\ IF ThousandMilesSince(Len(events))
                THEN /\ stops' = Append(stops, Stop(current_location, current_time,
                                                    "fuel", Hour \div 2))
                     /\ current_time' = current_time + Hour \div 2
                     /\ available_window_hours' = available_window_hours - Hour \div 2
                     /\ last_fuel_distance' = accumulated_distance'
                ELSE /\ stops' = stops
                     /\ current_time' = current_time
                     /\ available_window_hours' = available_window_hours
                     /\ last_fuel_distance' = last_fuel_distance
       /\ (Len(stops') > Len(stops) /\ stops'[Len(stops')].stop_type = "fuel") =>
             FuelStep /\ ThousandMilesSince(Len(events))
      ]_vars

\* C21 witness: a second fuel stop has just been taken, 1000 miles or more after
\* the first, in the middle of a segment.
C21_Witness ==
    /\ pc = "pickup"
    /\ IsStopOf(events[Len(events)], {"fuel"})
    /\ stops[Len(stops)].departure_time = current_time
    /\ Cardinality({i \in 1..Len(stops) : stops[i].stop_type = "fuel"}) = 2
    /\ ThousandMilesSince(Len(events) - 1)
    /\ last_fuel_distance = accumulated_distance
    /\ remaining_segment.duration < route_data.segments[segment_index + 1].duration

\* the positions in the stop list of the stops of a type
StopsOfType(t) == {i \in 1..Len(stops) : stops[i].stop_type = t}

\* C22: a route of 2 or more segments never has more than one pickup or dropoff
\* stop, however many passes a segment takes; the pickup is emitted on the first
\* segment and the dropoff on the last, none on the segments between; each lasts
\* 1 hour; the finished stop list has exactly one of each, the pickup first.
C22_OnePickupOneDropoff ==
    (total_segments >= 2 /\ pc # "init") =>
        /\ Cardinality(StopsOfType("pickup")) <= 1
        /\ Cardinality(StopsOfType("dropoff")) <= 1
        /\ \A i \in StopsOfType("pickup") \cup StopsOfType("dropoff") :
              stops[i].duration = 1 * Hour
        /\ \A k \in 1..Len(events) :
              /\ IsStopOf(events[k], {"pickup"}) => events[k].seg = 0
              /\ IsStopOf(events[k], {"dropoff"}) => events[k].seg = total_segments - 1
        /\ ScheduleReturned =>
              /\ Cardinality(StopsOfType("pickup")) = 1
              /\ Cardinality(StopsOfType("dropoff")) = 1
              /\ \A i \in StopsOfType("pickup") : \A j \in StopsOfType("dropoff") : i < j

\* C22 witness: the schedule of a route of 3 segments has been returned, the first
\* and the last segment each driven in several passes with a rest stop between.
C22_Witness ==
    /\ pc = "returned"
    /\ total_segments = 3
    /\ Len(PiecesOf(0)) >= 2
    /\ Len(PiecesOf(2)) >= 2
    /\ \E k \in 1..Len(events) : IsStopOf(events[k], {"rest"}) /\ events[k].seg = 0
    /\ \E k \in 1..Len(events) : IsStopOf(events[k], {"rest"}) /\ events[k].seg = 2

\* the minimum of the five limits of lines 172-178, in the current state
DrivableMinimum ==
    Min2(available_driving_hours,
         Min2(available_window_hours,
              Min2(remaining_segment.duration,
                   Min2(8 * Hour - hours_since_break, remaining_cycle_hours))))

\* the four clock limits are all positive
ClockLimitsPositive ==
    /\ available_driving_hours > 0
    /\ available_window_hours > 0
    /\ 8 * Hour - hours_since_break > 0
    /\ remaining_cycle_hours > 0

\* number of rest stops at the end of a stop list
RECURSIVE TrailingRests(_)
TrailingRests(s) ==
    IF s = << >> \/ s[Len(s)].stop_type # "rest" THEN 0
    ELSE 1 + TrailingRests(SubSeq(s, 1, Len(s) - 1))

\* the call has ended with an OverflowError
Raised == pc = "raised"

\* C23: the step that ends a pass, when the minimum of the five limits is not
\* positive, emits a rest stop and no scheduled segment, and otherwise emits one
\* scheduled segment, of that minimum as duration, and no stop; a scheduled
\* segment is emitted by no other step, always has a positive duration and is
\* never emitted while one of the four clock limits is not positive.
C23_PassDrivesTheMinimum ==
    [][/\ (pc = "drive" /\ pc' \notin {"drive", "raised"}) =>
             IF DrivableMinimum <= 0
             THEN /\ modified_segments' = modified_segments
                  /\ Len(stops') = Len(stops) + 1
                  /\ SubSeq(stops', 1, Len(stops)) = stops
                  /\ stops'[Len(stops')].stop_type = "rest"
             ELSE /\ Len(modified_segments') = Len(modified_segments) + 1
                  /\ SubSeq(modified_segments', 1, Len(modified_segments)) =
                         modified_segments
                  /\ modified_segments'[Len(modified_segments')].duration =
                         DrivableMinimum
                  /\ stops' = stops
       /\ Len(modified_segments') > Len(modified_segments) =>
             /\ pc = "drive"
             /\ ClockLimitsPositive
             /\ modified_segments'[Len(modified_segments')].duration > 0
      ]_vars

\* C23 witness: a pass has just driven the last of the 11 driving hours, with
\* part of the segment left, so that the next pass can only rest.
C23_Witness ==
    /\ pc = "break"
    /\ LastEventIsSegment
    /\ available_driving_hours = 0
    /\ available_window_hours > 0
    /\ remaining_cycle_hours > 0
    /\ remaining_segment.duration > 0
    /\ modified_segments[Len(modified_segments)].duration < 8 * Hour

\* a segment has just been split: the last scheduled segment is a partial one, of
\* the route segment still being driven
JustSplit ==
    /\ pc = "break"
    /\ LastEventIsSegment
    /\ events[Len(events)].seg = segment_index

LastSegment == modified_segments[Len(modified_segments)]

\* C24: the end location of a partial scheduled segment lies between the location
\* the pass started from and the segment's end location in proportion to the
\* distance covered: end = current + f * (next - current), with f the fraction
\* of the remaining segment driven in the pass.
C24_EndProportional ==
    JustSplit =>
        LET f == FDivInt(LastSegment.duration,
                         LastSegment.duration + remaining_segment.duration)
            from == LastSegment.start_location
            to == LastSegment.end_location
        IN /\ Close(to.lat, FAdd(from.lat, FMul(f, FSub(next_location.lat, from.lat))))
           /\ Close(to.lng, FAdd(from.lng, FMul(f, FSub(next_location.lng, from.lng))))

\* C24, amended: the end location of a partial scheduled segment is the midpoint
\* of the location the pass started from and the segment's end location, whatever
\* the fraction of the remaining segment driven in the pass.
C24_EndMidpoint ==
    JustSplit =>
        LET from == LastSegment.start_location
            to == LastSegment.end_location
        IN /\ to.lat = FHalf(FAdd(from.lat, next_location.lat))
           /\ to.lng = FHalf(FAdd(from.lng, next_location.lng))
           /\ current_location = to

\* C24 witness: a segment has been split twice, the second time with more than
\* half of what remained driven.
C24_Witness ==
    /\ JustSplit
    /\ Len(PiecesOf(segment_index)) = 2
    /\ FLess(remaining_segment.distance, LastSegment.distance)
    /\ LastSegment.start_location.address = IntermediateAddress(segment_index)

\* the elements of a sequence
Range(s) == {s[i] : i \in 1..Len(s)}

\* the part of the interval from a to b that lies in day d, in time of the day
ClippedToDay(a, b, d) ==
    << Max2(a, DayStart(d)) - DayStart(d), Min2(b, DayStart(d) + Day) - DayStart(d) >>

\* the interval from a to b has time in day d
OverlapsDay(a, b, d) == a < DayStart(d) + Day /\ b > DayStart(d)

\* the clipped intervals of the stops of the given types that have time in day d
StopsInDay(types, d) ==
    { ClippedToDay(stops[i].arrival_time, stops[i].departure_time, d) :
        i \in { j \in 1..Len(stops) :
                  /\ stops[j].stop_type \in types
                  /\ OverlapsDay(stops[j].arrival_time, stops[j].departure_time, d) } }

\* the clipped intervals of the scheduled segments that have time in day d
SegmentsInDay(d) ==
    { ClippedToDay(modified_segments[i].start_time, modified_segments[i].end_time, d) :
        i \in { j \in 1..Len(modified_segments) :
                  OverlapsDay(modified_segments[j].start_time,
                              modified_segments[j].end_time, d) } }

\* C25: in every log entry off_duty holds the rest and break stops of the day and
\* nothing else, on_duty the pickup, dropoff and fuel stops, driving the scheduled
\* segments, start and end stops are in no bucket and sleeper_berth is empty;
\* every interval is the stop's or segment's interval clipped to the day, each
\* recorded once, with 0 <= start < end <= 24 hours.
C25_LogBuckets ==
    pc \in {"logs", "done"} =>
        \A i \in 1..Len(logs) :
            LET entry == logs[i] IN
            /\ Range(entry.off_duty) = StopsInDay({"rest", "break"}, entry.date)
            /\ Range(entry.on_duty) = StopsInDay({"pickup", "dropoff", "fuel"}, entry.date)
            /\ Range(entry.driving) = SegmentsInDay(entry.date)
            /\ entry.sleeper_berth = << >>
            /\ Len(entry.off_duty) = Cardinality(Range(entry.off_duty))
            /\ Len(entry.on_duty) = Cardinality(Range(entry.on_duty))
            /\ Len(entry.driving) = Cardinality(Range(entry.driving))
            /\ \A iv \in Range(entry.off_duty) \cup Range(entry.on_duty)
                         \cup Range(entry.driving) :
                  0 <= iv[1] /\ iv[1] < iv[2] /\ iv[2] <= 24 * Hour

\* C25 witness: the logs of a trip are written, with a day that has a rest stop
\* cut at midnight, a fuel stop, a pickup and driving.
C25_Witness ==
    /\ pc = "done"
    /\ \E i \in 1..Len(logs) :
          /\ \E iv \in Range(logs[i].off_duty) : iv[2] = 24 * Hour /\ iv[2] - iv[1] < 10 * Hour
          /\ Len(logs[i].on_duty) >= 2
          /\ logs[i].driving # << >>
    /\ \E j \in 1..Len(stops) : stops[j].stop_type = "fuel"

\* the route has 2 segments or more
TwoOrMoreSegments == total_segments >= 2

\* the hours used in the cycle, the driving of all segments and the 2 hours of
\* pickup and dropoff fit into the 70-hour cycle
FitsCycle ==
    current_cycle_hours
    + SumSeq([i \in 1..total_segments |-> route_data.segments[i].duration])
    + 2 * Hour <= 70 * Hour

\* the cycle is used up with driving still to do
CycleExhausted ==
    /\ InSchedule
    /\ segment_index < total_segments
    /\ remaining_cycle_hours <= 0

\* C26, as stated: for a route of 2 or more segments of positive duration the
\* call terminates if and only if current_cycle_hours plus all segment durations
\* plus 2 hours of pickup and dropoff is at most 70 hours; otherwise the cycle runs
\* out with driving still to do, no scheduled segment is emitted from then on, and
\* rest stops are appended for ever: the call never ends.
C26_RestsForEver ==
    /\ (TwoOrMoreSegments /\ FitsCycle) ~> ScheduleReturned
    /\ [](TwoOrMoreSegments /\ ~FitsCycle => ~ScheduleReturned /\ ~Raised)
    /\ [][TwoOrMoreSegments /\ CycleExhausted =>
              CycleExhausted' /\ modified_segments' = modified_segments]_vars

\* C26, amended: for a route of 2 or more segments of positive duration, called
\* long enough before the end of datetime's range, the schedule is returned if
\* and only if current_cycle_hours plus all segment durations plus 2 hours of
\* pickup and dropoff is at most 70 hours; otherwise the cycle runs out with
\* driving still to do, no scheduled segment is emitted from then on, and rest
\* stops follow one another, 10 hours each, until current_time + 10 hours lies
\* beyond datetime.max: the call ends with an OverflowError, the end stop never
\* appended.
C26_ReturnsIffCycleFits ==
    /\ TwoOrMoreSegments ~> IF FitsCycle THEN ScheduleReturned ELSE Raised
    /\ [](TwoOrMoreSegments /\ ~FitsCycle => ~ScheduleReturned)
    /\ [](TwoOrMoreSegments /\ FitsCycle => ~Raised)
    /\ [](TwoOrMoreSegments /\ Raised =>
             /\ remaining_cycle_hours <= 0
             /\ segment_index < total_segments
             /\ stops[Len(stops)].stop_type = "rest"
             /\ ~InRange(current_time + 10 * Hour))
    /\ [][TwoOrMoreSegments /\ CycleExhausted =>
              /\ CycleExhausted' \/ Raised'
              /\ modified_segments' = modified_segments]_vars

\* C26 witness: with the cycle used up in the middle of a route the call has ended
\* with an OverflowError, after scheduled segments and a run of rest stops.
C26_Witness ==
    /\ Raised
    /\ TwoOrMoreSegments
    /\ remaining_cycle_hours = 0
    /\ modified_segments # << >>
    /\ TrailingRests(stops) >= 3

\* C27: the driver is never scheduled on duty beyond the 70-hour cycle:
\* remaining_cycle_hours is never negative, that is current_cycle_hours plus the
\* driving, pickup and dropoff hours scheduled so far never exceeds 70 hours, also
\* when current_cycle_hours is 69 or 70 at the start.
C27_CycleNeverNegative ==
    (InSchedule \/ ScheduleReturned) =>
        /\ remaining_cycle_hours >= 0
        /\ current_cycle_hours + TotalSegmentDuration + StopHours({"pickup", "dropoff"})
               <= 70 * Hour

\* C28: pickup and dropoff are scheduled before the driving of the leg that ends
\* at their location: the pickup stop is the second stop of the list and arrives
\* at start_time, before any scheduled segment; the dropoff stop departs no later
\* than the first scheduled segment of the last route segment starts, and that
\* segment is not driven before the dropoff stop is there.
C28_StopsBeforeTheirLeg ==
    InSchedule \/ ScheduleReturned =>
        /\ StopsOfType("pickup") \subseteq {2}
        /\ Len(stops) >= 2 =>
              stops[2].stop_type = "pickup" /\ stops[2].arrival_time = start_time
        /\ modified_segments # << >> => StopsOfType("pickup") # {}
        /\ \A i \in StopsOfType("pickup") :
              \A k \in 1..Len(modified_segments) :
                  stops[i].departure_time <= modified_segments[k].start_time
        /\ total_segments >= 2 =>
              LET last == PiecesOf(total_segments - 1) IN
              /\ last # << >> => StopsOfType("dropoff") # {}
              /\ \A i \in StopsOfType("dropoff") : \A k \in 1..Len(last) :
                    stops[i].departure_time <= modified_segments[last[k].idx].start_time

\* C28 witness: a schedule has been returned in which the dropoff stop was taken
\* before the first of several scheduled segments of the last route segment, and
\* the pickup stop before the first segment.
C28_Witness ==
    /\ pc = "returned"
    /\ total_segments >= 2
    /\ Len(PiecesOf(total_segments - 1)) >= 2
    /\ Len(PiecesOf(0)) >= 2
    /\ \E i \in StopsOfType("dropoff") :
          stops[i].departure_time =
              modified_segments[PiecesOf(total_segments - 1)[1].idx].start_time
    /\ stops[2].departure_time = modified_segments[1].start_time

=============================================================================
